---------------------------- MODULE Spec2Model ----------------------------
(***************************************************************************)
(* Dev-Janitor tool detection engine (src-tauri/src/detection/mod.rs).     *)
(*                                                                         *)
(* scan_all_tools runs detect_tool for every rule of the catalog on a      *)
(* rayon pool.  detect_tool resolves each candidate command with           *)
(* which::which, runs it with the rule's version arguments, extracts a     *)
(* version from the captured output and finally (Windows builds only)      *)
(* probes a list of extra install directories.                             *)
(*                                                                         *)
(* Texts (process output, versions, patterns) are sequences of one-        *)
(* character strings; paths and identifiers are strings.                   *)
(***************************************************************************)
EXTENDS Integers, Sequences, FiniteSets, TLC

\* Number of scans the front end requests in one behaviour.
MaxScans == 2

\* Number of entries of a rule's extra-path list that may exist on the
\* modelled machine (the first MaxShadowDirs entries of the list).
MaxShadowDirs == 1

(***************************************************************************)
(* Option<T>: None is the empty sequence, Some(x) the one-element sequence.*)
(***************************************************************************)
None == << >>
Some(x) == << x >>
IsSome(o) == o # << >>
Unwrap(o) == o[1]

Min(a, b) == IF a < b THEN a ELSE b

(***************************************************************************)
(* Characters and the regular expressions of the rule catalog.             *)
(* A pattern is a sequence of items, each a character class with a         *)
(* quantifier (one, opt for ?, plus for +, star for the Kleene star), with *)
(* one capture group spanning items gfrom..gto (gfrom = 0: no group).      *)
(* ok = FALSE stands for a pattern Regex::new rejects.                     *)
(***************************************************************************)
Digit == {"0", "1", "2", "3", "4", "5", "6", "7", "8", "9"}
Whitespace == {" ", "\n", "\t", "\r"}

Lit(c) == [set |-> {c}, q |-> "one"]
DigitsPlus == [set |-> Digit, q |-> "plus"]
DigitsStar == [set |-> Digit, q |-> "star"]
Dot == Lit(".")
DotOpt == [set |-> {"."}, q |-> "opt"]

Lits(s) == [i \in 1..Len(s) |-> Lit(s[i])]

\* \d+\.\d+\.\d+
SemVer3 == << DigitsPlus, Dot, DigitsPlus, Dot, DigitsPlus >>

\* Regex::new(r"(\d+\.\d+\.?\d*)") of extract_version's fallback branch
FallbackPattern ==
    [ok |-> TRUE,
     items |-> << DigitsPlus, Dot, DigitsPlus, DotOpt, DigitsStar >>,
     gfrom |-> 1, gto |-> 5]

\* r"Python (\d+\.\d+\.\d+)"
PythonPattern ==
    [ok |-> TRUE,
     items |-> Lits(<< "P", "y", "t", "h", "o", "n", " " >>) \o SemVer3,
     gfrom |-> 8, gto |-> 12]

\* r"git version (\d+\.\d+\.\d+)"
GitPattern ==
    [ok |-> TRUE,
     items |-> Lits(<< "g", "i", "t", " ", "v", "e", "r", "s", "i", "o", "n", " " >>)
               \o SemVer3,
     gfrom |-> 13, gto |-> 17]

\* Number of consecutive characters of text from position pos that are in set.
RECURSIVE Run(_, _, _)
Run(set, text, pos) ==
    IF pos <= Len(text) /\ text[pos] \in set
    THEN 1 + Run(set, text, pos + 1)
    ELSE 0

(***************************************************************************)
(* Backtracking match of items[k..] at position pos, greedy quantifiers.   *)
(* The result is the sequence of positions at which items k, k+1, ...      *)
(* start, followed by the position after the match; << >> if none.         *)
(***************************************************************************)
RECURSIVE MatchItems(_, _, _, _)
RECURSIVE TryCount(_, _, _, _, _, _)
TryCount(items, k, text, pos, n, lo) ==
    IF n < lo
    THEN << >>
    ELSE LET rest == MatchItems(items, k + 1, text, pos + n)
         IN  IF rest # << >>
             THEN << pos >> \o rest
             ELSE TryCount(items, k, text, pos, n - 1, lo)

MatchItems(items, k, text, pos) ==
    IF k > Len(items)
    THEN << pos >>
    ELSE LET it == items[k]
             avail == Run(it.set, text, pos)
             hi == IF it.q \in {"one", "opt"} THEN Min(1, avail) ELSE avail
             lo == IF it.q \in {"one", "plus"} THEN 1 ELSE 0
         IN  TryCount(items, k, text, pos, hi, lo)

\* A match that must begin where the search begins.
CapturesAnchored(items, text, start) == MatchItems(items, 1, text, start)

\* Regex::captures: the leftmost match.
RECURSIVE Captures(_, _, _)
Captures(items, text, start) ==
    IF start > Len(text) + 1
    THEN << >>
    ELSE LET m == MatchItems(items, 1, text, start)
         IN  IF m # << >> THEN m ELSE Captures(items, text, start + 1)

\* The fallback also in place of a pattern that does not compile.
CompiledOrFallback(pattern) ==
    IF IsSome(pattern) /\ Unwrap(pattern).ok THEN Unwrap(pattern) ELSE FallbackPattern

\* The regex extract_version compiles: the rule's, or the fallback.
CompiledPattern(pattern) ==
    IF IsSome(pattern) THEN Unwrap(pattern) ELSE FallbackPattern

\* The whole match in place of capture group 1.
extract_version_whole(output, pattern) ==
    LET re == CompiledPattern(pattern)
    IN  IF ~re.ok
        THEN None
        ELSE LET caps == Captures(re.items, output, 1)
             IN  IF caps = << >>
                 THEN None
                 ELSE Some(SubSeq(output, caps[1], caps[Len(caps)] - 1))

extract_version(output, pattern) ==
    LET re == CompiledPattern(pattern)
    IN  IF ~re.ok
        THEN None
        ELSE LET caps == Captures(re.items, output, 1)
             IN  IF caps = << >>
                 THEN None
                 ELSE IF re.gfrom = 0
                      THEN None
                      ELSE Some(SubSeq(output, caps[re.gfrom], caps[re.gto + 1] - 1))

\* str::trim().is_empty()
TrimIsEmpty(s) == \A i \in 1..Len(s) : s[i] \in Whitespace

Unknown == << "u", "n", "k", "n", "o", "w", "n" >>


(***************************************************************************)
(* The rule catalog: two of the rules of get_tool_rules, the one with      *)
(* several candidate commands and extra install directories and one with a *)
(* single command and none.                                                *)
(***************************************************************************)
PythonRule ==
    [id |-> "python", name |-> "Python", category |-> "runtime",
     commands |-> << "python", "python3", "py" >>,
     version_args |-> << "--version" >>,
     version_regex |-> Some(PythonPattern)]

GitRule ==
    [id |-> "git", name |-> "Git", category |-> "version_control",
     commands |-> << "git" >>,
     version_args |-> << "--version" >>,
     version_regex |-> Some(GitPattern)]

get_tool_rules == << PythonRule, GitRule >>

Rules == 1..Len(get_tool_rules)

\* PathBuf::join on a Windows build
Join(dir, file) == dir \o "\\" \o file

\* Values of the environment variables get_windows_extra_paths reads.
LocalAppData == "C:\\Users\\u\\AppData\\Local"
UserProfile == "C:\\Users\\u"

\* The paths get_windows_extra_paths pushes for "python"
PythonExtraPaths ==
    << LocalAppData \o "\\Python\\Python39",
       LocalAppData \o "\\Python\\Python310",
       LocalAppData \o "\\Python\\Python311",
       LocalAppData \o "\\Python\\Python312",
       LocalAppData \o "\\Python\\Python313",
       UserProfile \o "\\Anaconda3",
       UserProfile \o "\\Miniconda3",
       UserProfile \o "\\.pyenv\\pyenv-win\\versions" >>

get_windows_extra_paths(tool_id) ==
    IF tool_id = "python" THEN PythonExtraPaths ELSE << >>

(***************************************************************************)
(* The machine.  An executable file behaves in one way whenever it is run  *)
(* with the version arguments: it cannot be started, it never exits, or it *)
(* exits with a status after writing to its two streams.                   *)
(***************************************************************************)
Exits(code, out, err) == [kind |-> "exit", code |-> code, stdout |-> out, stderr |-> err]
NoExit(kind) == [kind |-> kind, code |-> 0, stdout |-> << >>, stderr |-> << >>]

TextPython3 == << "P", "y", "t", "h", "o", "n", " ", "3", ".", "1", "1", ".", "4", "\n" >>
TextPython2 == << "P", "y", "t", "h", "o", "n", " ", "2", ".", "7", ".", "1", "8", "\n" >>
TextGit == << "g", "i", "t", " ", "v", "e", "r", "s", "i", "o", "n", " ", "2", ".", "4", "3", ".", "0" >>
TextUsage == << "u", "s", "a", "g", "e", ":" >>
TextBlank == << " ", "\n" >>
TextError == << "e", "r", "r", "o", "r", " ", "1" >>

\* The behaviours of the model, by name.
Behaviour ==
    [absent      |-> NoExit("absent"),
     spawn_fail  |-> NoExit("spawn_fail"),
     hang        |-> NoExit("hang"),
     py_ok       |-> Exits(0, TextPython3, << >>),
     py_usage    |-> Exits(0, TextUsage, TextPython2),
     py_fail     |-> Exits(1, << >>, TextError),
     git_ok      |-> Exits(0, TextGit, << >>),
     git_stderr  |-> Exits(0, TextBlank, TextGit)]

Absent == "absent"
PythonBehaviours == { "spawn_fail", "hang", "py_ok", "py_usage", "py_fail" }
GitBehaviours == { "hang", "git_ok", "git_stderr" }

\* The executables a search-path lookup can resolve to, per build target.
PythonPaths(win) ==
    IF win
    THEN { Join(get_windows_extra_paths("python")[1], "python"), "C:\\tools\\python" }
    ELSE { "/usr/bin/python", "/usr/local/bin/python" }

GitPaths(win) == IF win THEN { "C:\\tools\\git" } ELSE { "/usr/bin/git" }

\* The extra directories that may exist on the modelled machine.
ShadowDirs ==
    { get_windows_extra_paths(get_tool_rules[r].id)[i] :
        r \in { q \in Rules : get_windows_extra_paths(get_tool_rules[q].id) # << >> },
        i \in 1..Min(MaxShadowDirs, Len(get_windows_extra_paths("python"))) }

ShadowExes == { Join(d, PythonRule.commands[1]) : d \in ShadowDirs }

Commands == UNION { { get_tool_rules[r].commands[i] : i \in 1..Len(get_tool_rules[r].commands) } : r \in Rules }

ExePaths(win) == PythonPaths(win) \cup GitPaths(win) \cup (IF win THEN ShadowExes ELSE {})

PathsFor(cmd, win) == IF cmd = "git" THEN GitPaths(win) ELSE PythonPaths(win)

Range(f) == { f[x] : x \in DOMAIN f }

(***************************************************************************)
(* The machines of the model: the search path resolves a command only to   *)
(* an executable of its tool that exists, every executable that exists is  *)
(* reachable through the search path or lies in an extra directory, and a  *)
(* directory that holds an executable exists.                              *)
(***************************************************************************)
MachineOk(win, e, w, d) ==
    /\ \A c \in Commands :
         IsSome(w[c]) =>
            /\ Unwrap(w[c]) \in PathsFor(c, win)
            /\ e[Unwrap(w[c])] # Absent
    /\ \A p \in ExePaths(win) :
         e[p] # Absent =>
            \/ Some(p) \in Range(w)
            \/ \E x \in d : p = Join(x, PythonRule.commands[1])
    /\ \A x \in ShadowDirs :
         (win /\ e[Join(x, PythonRule.commands[1])] # Absent) => x \in d

VARIABLES
    windows,      \* the build target: cfg(target_os = "windows")
    exe,          \* the machine: behaviour of each executable file
    which_env,    \* the machine: what which::which resolves each command to
    dirs,         \* the machine: the extra directories that exist
    scans,        \* number of scan_all_tools calls made so far
    scanning,     \* a scan_all_tools call is in progress
    pc,           \* per rule: where its detect_tool call stands
    ci,           \* per rule: index of the candidate command of the for loop
    xi,           \* per rule: index into extra_paths of the second loop
    versions,     \* per rule: detect_tool's local versions
    found_paths,  \* per rule: detect_tool's local found_paths
    running,      \* per rule: the file execute_command is waiting for
    probes,       \* per rule: the execute_command calls made, in order, each
                  \* with the command run, the file it starts and the path
                  \* detect_tool records for it
    result,       \* per rule: what detect_tool returned
    returned,     \* the lists returned by the completed scans, in order
    request,      \* the front-end command being served, or served last
    reply,        \* what the last command served returned to the front end
    rules,        \* scan_all_tools' local rules: the catalog the tasks of the
                  \* scan borrow their rule from
    call          \* a call of a function taken on its own (extract_version,
                  \* check_exposed_ports, analyze_path): arguments and value

env == << windows, exe, which_env, dirs >>
vars == << windows, exe, which_env, dirs, scans, scanning, pc, ci, xi,
           versions, found_paths, running, probes, result, returned,
           request, reply, rules, call >>

\* The commands of commands/tools.rs that scan: scan_tools() and
\* get_tool_info(toolId).
ScanTools == << "scan_tools" >>
GetToolInfo(toolId) == << "get_tool_info", toolId >>

\* No extract_version call is modelled.
NoCall == [phase |-> "none", text |-> << >>, pattern |-> "none",
           value |-> None, version |-> << >>]

\* Nothing has been requested yet.
Idle ==
    /\ scans = 0
    /\ scanning = FALSE
    /\ pc = [r \in Rules |-> "idle"]
    /\ ci = [r \in Rules |-> 1]
    /\ xi = [r \in Rules |-> 1]
    /\ versions = [r \in Rules |-> << >>]
    /\ found_paths = [r \in Rules |-> {}]
    /\ running = [r \in Rules |-> None]
    /\ probes = [r \in Rules |-> << >>]
    /\ result = [r \in Rules |-> None]
    /\ returned = << >>
    /\ request = ScanTools
    /\ rules = get_tool_rules
    /\ reply = << >>

Init ==
    /\ windows \in BOOLEAN
    /\ \E pe \in [ExePaths(windows) \ GitPaths(windows) -> PythonBehaviours \cup {Absent}],
          ge \in [GitPaths(windows) -> GitBehaviours \cup {Absent}] :
            exe = pe @@ ge
    /\ \E pw \in [Commands \ {"git"} -> {None} \cup { Some(p) : p \in PythonPaths(windows) }],
          gw \in [{"git"} -> {None} \cup { Some(p) : p \in GitPaths(windows) }] :
            which_env = pw @@ gw
    /\ dirs \in SUBSET (IF windows THEN ShadowDirs ELSE {})
    /\ MachineOk(windows, exe, which_env, dirs)
    /\ Idle
    /\ call = NoCall

\* which::which(cmd).ok()
find_command_path(cmd) == which_env[cmd]

(***************************************************************************)
(* What running a file through execute_command gives.  A Windows build     *)
(* starts cmd /C with the command line: the interpreter itself starts, and *)
(* when it cannot start the program it writes a message to its standard    *)
(* error and exits with status 1.  Other builds start the program          *)
(* directly.                                                               *)
(***************************************************************************)
TextNotRecognized == << "n", "o", "t", " ", "r", "e", "c", "o", "g", "n", "i", "z", "e", "d" >>

ChildOf(file) ==
    LET b == Behaviour[IF file \in DOMAIN exe THEN exe[file] ELSE Absent]
    IN  IF windows
        THEN IF b.kind \in {"absent", "spawn_fail"}
             THEN Exits(1, << >>, TextNotRecognized)
             ELSE b
        ELSE IF b.kind = "absent" THEN NoExit("spawn_fail") ELSE b

\* Command::output() never returns while the child runs.
Blocked(child) == child.kind = "hang"

\* execute_command's value once Command::output() has returned
execute_command(child) ==
    IF child.kind = "spawn_fail"
    THEN None
    ELSE Some(<< child.stdout, child.stderr >>)

SelectBoth(out) == out[1] \o out[2]

\* The stream detect_tool searches: stderr when stdout is blank.
SelectOutput(out) == IF TrimIsEmpty(out[1]) THEN out[2] ELSE out[1]

UnwrapOrEmpty(ev) == IF IsSome(ev) THEN Unwrap(ev) ELSE << >>

\* .unwrap_or_else(|| "unknown".to_string())
UnwrapOrUnknown(ev) == IF IsSome(ev) THEN Unwrap(ev) ELSE Unknown

\* The (stdout, stderr) pairs execute_command can return on the machines of
\* the model.
Outputs ==
    { << Behaviour[b].stdout, Behaviour[b].stderr >> : b \in DOMAIN Behaviour }
        \cup { << << >>, TextNotRecognized >> }

\* extract_version(output, rule.version_regex) for each of these outputs and
\* each rule, evaluated once.
Extracted ==
    [out \in Outputs |->
        [r \in Rules |->
            extract_version(SelectOutput(out), get_tool_rules[r].version_regex)]]

\* The ToolVersion detect_tool builds for rule r from a captured output.
MakeVersion(out, r, path, active) ==
    [version |-> UnwrapOrUnknown(Extracted[out][r]),
     path |-> path,
     is_active |-> active]

StaleFound(found) == found

\* let mut found_paths: HashMap<String, bool> = HashMap::new()
FreshFound(found) == {}

AlreadyFoundNever(found, path) == FALSE

\* found_paths.contains_key(&path_str)
AlreadyFound(found, path) == path \in found

InsertFoundIfStarted(found, path) ==
    IF ChildOf(path).kind = "spawn_fail" THEN found ELSE found \cup {path}

InsertFoundNothing(found, path) == found

\* found_paths.insert(path_str.clone(), true)
InsertFound(found, path) == found \cup {path}

PushFront(vs, v) == << v >> \o vs

\* versions.push(ToolVersion { .. })
Push(vs, v) == Append(vs, v)

ShadowActiveIfFirst(vs) == vs = << >>

\* is_active: false, for a version of an extra directory
ShadowIsActive(vs) == FALSE

AlwaysActive(vs) == TRUE

\* is_active: versions.is_empty()
FirstIsActive(vs) == vs = << >>

\* Path::exists
PathExists(p) == p \in dirs \/ (p \in DOMAIN exe /\ exe[p] # Absent)

StatusOfThreshold2(vs) == IF Len(vs) > 2 THEN "multiple_versions" ELSE "installed"

StatusOfNonEmpty(vs) == IF Len(vs) > 0 THEN "multiple_versions" ELSE "installed"

StatusOf(vs) == IF Len(vs) > 1 THEN "multiple_versions" ELSE "installed"

DetectResultAlways(rule, vs) ==
    Some([id |-> rule.id, name |-> rule.name, category |-> rule.category,
          versions |-> vs, status |-> StatusOf(vs)])

\* The value detect_tool returns for the versions it collected.
DetectResult(rule, vs) ==
    IF vs = << >>
    THEN None
    ELSE Some([id |-> rule.id, name |-> rule.name, category |-> rule.category,
               versions |-> vs, status |-> StatusOf(vs)])

CollectFirst(res, r) == res[r]

\* par_iter().filter_map(detect_tool).collect(): the Some results, in rule order
RECURSIVE Collect(_, _)
Collect(res, r) ==
    IF r > Len(get_tool_rules)
    THEN << >>
    ELSE res[r] \o Collect(res, r + 1)

\* A scan that answers from the first list ever returned.
scan_all_tools_cached(res) ==
    IF returned # << >> THEN returned[1] ELSE Collect(res, 1)

\* scan_all_tools' value once every detect_tool call has returned
scan_all_tools(res) == Collect(res, 1)

FindAny(tools, toolId) == IF tools = << >> THEN None ELSE Some(tools[1])

\* tools.into_iter().find(|t| t.id == toolId)
RECURSIVE Find(_, _)
Find(tools, toolId) ==
    IF tools = << >>
    THEN None
    ELSE IF tools[1].id = toolId
         THEN Some(tools[1])
         ELSE Find(Tail(tools), toolId)

\* What the command serving req returns for the list of a scan.
ReplyTo(req, tools) ==
    IF req = ScanTools THEN tools ELSE Find(tools, req[2])

\* The least element of a set of indices, 0 for the empty set.
FirstIndex(S) == IF S = {} THEN 0 ELSE CHOOSE j \in S : \A k \in S : j <= k

\* The iterations i.. of the loop over rule.commands that reach
\* execute_command: the command resolves and its path is not in found_paths.
CandidatesToProbe(rule, i, found) ==
    { j \in i..Len(rule.commands) :
        LET path == find_command_path(rule.commands[j])
        IN  IsSome(path) /\ ~AlreadyFound(found, Unwrap(path)) }

\* The iterations i.. of the loop over extra_paths that reach execute_command.
ExtrasToProbe(rule, i, found) ==
    LET extra_paths == get_windows_extra_paths(rule.id)
    IN  { j \in i..Len(extra_paths) :
            /\ PathExists(extra_paths[j])
            /\ ~AlreadyFound(found, extra_paths[j])
            /\ PathExists(Join(extra_paths[j], rule.commands[1])) }

(***************************************************************************)
(* detect_tool runs from iteration i of one of its two loops, with local   *)
(* versions vs and found_paths found, up to its next call of               *)
(* execute_command or to its return.  Iterations that do not reach         *)
(* execute_command change no local.  The block over the extra paths is     *)
(* compiled on Windows only.                                               *)
(***************************************************************************)
Resume(rule, phase, i, vs, found) ==
    LET cj == IF phase = "cmds" THEN FirstIndex(CandidatesToProbe(rule, i, found)) ELSE 0
        xj == IF windows
              THEN FirstIndex(ExtrasToProbe(rule, IF phase = "extra" THEN i ELSE 1, found))
              ELSE 0
    IN  IF cj # 0
        THEN LET path_str == Unwrap(find_command_path(rule.commands[cj]))
             IN  [pc |-> "exec", ci |-> cj, xi |-> 1,
                  found |-> InsertFound(found, path_str),
                  running |-> Some(path_str),
                  probe |-> << [cmd |-> rule.commands[cj], file |-> path_str,
                                path |-> path_str, shadow |-> FALSE] >>,
                  result |-> None]
        ELSE IF xj # 0
        THEN LET extra_path == get_windows_extra_paths(rule.id)[xj]
                 cmd == Join(extra_path, rule.commands[1])
             IN  [pc |-> "xexec", ci |-> Len(rule.commands) + 1, xi |-> xj,
                  found |-> found,
                  running |-> Some(cmd),
                  probe |-> << [cmd |-> cmd, file |-> cmd, path |-> extra_path,
                                shadow |-> TRUE] >>,
                  result |-> None]
        ELSE [pc |-> "done", ci |-> Len(rule.commands) + 1,
              xi |-> Len(get_windows_extra_paths(rule.id)) + 1,
              found |-> found, running |-> None, probe |-> << >>,
              result |-> DetectResult(rule, vs)]

\* The locals of rule r's task after it ran on with versions vs.
Proceed(r, vs, next) ==
    /\ versions' = [versions EXCEPT ![r] = vs]
    /\ pc' = [pc EXCEPT ![r] = next.pc]
    /\ ci' = [ci EXCEPT ![r] = next.ci]
    /\ xi' = [xi EXCEPT ![r] = next.xi]
    /\ found_paths' = [found_paths EXCEPT ![r] = next.found]
    /\ running' = [running EXCEPT ![r] = next.running]
    /\ probes' = [probes EXCEPT ![r] = @ \o next.probe]
    /\ result' = [result EXCEPT ![r] = next.result]

(***************************************************************************)
(* detect_tool for rule r run by itself from iteration i of a loop to its  *)
(* return: whether it returns, and the value it returns.                   *)
(***************************************************************************)
RECURSIVE RunAlone(_, _, _, _, _)
RunAlone(r, phase, i, vs, found) ==
    LET next == Resume(get_tool_rules[r], phase, i, vs, found)
    IN  IF next.pc = "done"
        THEN [returns |-> TRUE, value |-> next.result]
        ELSE LET probe == next.probe[1]
                 child == ChildOf(probe.file)
                 out == execute_command(child)
                 pushed == IF IsSome(out)
                           THEN Push(vs, MakeVersion(Unwrap(out), r, probe.path,
                                                     IF probe.shadow
                                                     THEN ShadowIsActive(vs)
                                                     ELSE FirstIsActive(vs)))
                           ELSE vs
             IN  IF Blocked(child)
                 THEN [returns |-> FALSE, value |-> None]
                 ELSE IF probe.shadow
                      THEN RunAlone(r, "extra", next.xi + 1, pushed, next.found)
                      ELSE RunAlone(r, "cmds", next.ci + 1, pushed, next.found)

detect_tool(r) == RunAlone(r, "cmds", 1, << >>, FreshFound({}))

(***************************************************************************)
(* A command of the front end calls scan_all_tools: one detect_tool task   *)
(* per rule, each with fresh locals.                                       *)
(***************************************************************************)
\* The catalog a scan would leave had its tasks consumed the candidate commands.
scan_rules_consumed(last) ==
    [r \in DOMAIN last |-> [last[r] EXCEPT !.commands = << Head(@) >>]]

\* let rules = get_tool_rules(): every scan builds the catalog anew.
scan_rules(last) == get_tool_rules

Serve(req) ==
    /\ ~scanning
    /\ scans < MaxScans
    /\ scans' = scans + 1
    /\ scanning' = TRUE
    /\ request' = req
    /\ pc' = [r \in Rules |-> "queued"]
    /\ ci' = [r \in Rules |-> 1]
    /\ xi' = [r \in Rules |-> 1]
    /\ versions' = [r \in Rules |-> << >>]
    /\ found_paths' = [r \in Rules |-> FreshFound(found_paths[r])]
    /\ running' = [r \in Rules |-> None]
    /\ probes' = [r \in Rules |-> << >>]
    /\ result' = [r \in Rules |-> None]
    /\ rules' = scan_rules(rules)
    /\ UNCHANGED << env, returned, reply, call >>

\* The front end invokes scan_tools.
StartScan == Serve(ScanTools)

\* A pool thread takes rule r's task: detect_tool runs to its first
\* execute_command call, or returns when no candidate reaches one.
DetectStart(r) ==
    /\ pc[r] = "queued"
    /\ Proceed(r, << >>, Resume(rules[r], "cmds", 1, << >>, found_paths[r]))
    /\ UNCHANGED << env, scans, scanning, returned, request, reply, rules, call >>

\* execute_command returns for a candidate command: a version is pushed
\* unless it returned None, and detect_tool runs on.
CandidateReturn(r) ==
    LET rule == rules[r]
        path_str == Unwrap(running[r])
        child == ChildOf(path_str)
        out == execute_command(child)
        vs == IF IsSome(out)
              THEN Push(versions[r],
                        MakeVersion(Unwrap(out), r, path_str,
                                    FirstIsActive(versions[r])))
              ELSE versions[r]
    IN
    /\ pc[r] = "exec"
    /\ ~Blocked(child)
    /\ Proceed(r, vs, Resume(rule, "cmds", ci[r] + 1, vs, found_paths[r]))
    /\ UNCHANGED << env, scans, scanning, returned, request, reply, rules, call >>

\* execute_command returns for an extra path: the version pushed is never
\* active, and detect_tool runs on.
ExtraReturn(r) ==
    LET rule == rules[r]
        extra_path == get_windows_extra_paths(rule.id)[xi[r]]
        child == ChildOf(Unwrap(running[r]))
        out == execute_command(child)
        vs == IF IsSome(out)
              THEN Push(versions[r], MakeVersion(Unwrap(out), r, extra_path,
                                                 ShadowIsActive(versions[r])))
              ELSE versions[r]
    IN
    /\ pc[r] = "xexec"
    /\ ~Blocked(child)
    /\ Proceed(r, vs, Resume(rule, "extra", xi[r] + 1, vs, found_paths[r]))
    /\ UNCHANGED << env, scans, scanning, returned, request, reply, rules, call >>

\* Every task has finished: collect() completes, scan_all_tools returns and
\* the command replies to the front end.
ScanReturn ==
    /\ scanning
    /\ \A r \in Rules : pc[r] = "done"
    /\ returned' = Append(returned, scan_all_tools(result))
    /\ reply' = ReplyTo(request, scan_all_tools(result))
    /\ scanning' = FALSE
    /\ pc' = [r \in Rules |-> "idle"]
    /\ UNCHANGED << env, scans, ci, xi, versions, found_paths, running, probes,
                    result, request, rules, call >>

Next ==
    \/ StartScan
    \/ \E r \in Rules : DetectStart(r)
    \/ \E r \in Rules : CandidateReturn(r)
    \/ \E r \in Rules : ExtraReturn(r)
    \/ ScanReturn

Spec == Init /\ [][Next]_vars

\* The scheduling the code has: rayon runs every task, a child that exits is
\* reaped, and collect() returns once every task has finished.  Calls of
\* scan_all_tools are the front end's and carry no fairness.
FairSpec ==
    /\ Init
    /\ [][Next]_vars
    /\ \A r \in Rules :
         /\ WF_vars(DetectStart(r))
         /\ WF_vars(CandidateReturn(r))
         /\ WF_vars(ExtraReturn(r))
    /\ WF_vars(ScanReturn)

(***************************************************************************)
(* A machine that changes between scans: a tool is installed, as a working *)
(* executable the search path resolves the rule's first command to, or     *)
(* removed with all its files.  The front end asks through scan_tools and  *)
(* through get_tool_info.                                                  *)
(***************************************************************************)
\* The ids the front end asks for: those of the catalog and one that no
\* rule has.
ToolIds == { get_tool_rules[r].id : r \in Rules } \cup { "no_such_tool" }

Requests == { ScanTools } \cup { GetToolInfo(toolId) : toolId \in ToolIds }

\* The behaviour of a working executable of rule r.
Working(r) == IF get_tool_rules[r].id = "git" THEN "git_ok" ELSE "py_ok"

\* The executables of rule r and the extra directories that hold one.
FilesOf(r) ==
    PathsFor(get_tool_rules[r].commands[1], windows)
        \cup { Join(d, get_tool_rules[r].commands[1]) :
                 d \in Range(get_windows_extra_paths(get_tool_rules[r].id)) }

DirsHolding(file) ==
    { d \in ShadowDirs : \E r \in Rules : file = Join(d, get_tool_rules[r].commands[1]) }

IsInstalled(r) == \E f \in FilesOf(r) \cap DOMAIN exe : exe[f] # Absent

ChangeInit ==
    /\ windows \in BOOLEAN
    /\ exe = [f \in ExePaths(windows) |-> Absent]
    /\ which_env = [c \in Commands |-> None]
    /\ dirs = {}
    /\ Idle
    /\ call = NoCall

Install(r, file) ==
    /\ ~scanning
    /\ ~IsInstalled(r)
    /\ file \in PathsFor(get_tool_rules[r].commands[1], windows)
    /\ exe' = [exe EXCEPT ![file] = Working(r)]
    /\ which_env' = [which_env EXCEPT ![get_tool_rules[r].commands[1]] = Some(file)]
    /\ dirs' = dirs \cup (IF windows THEN DirsHolding(file) ELSE {})
    /\ UNCHANGED << windows, scans, scanning, pc, ci, xi, versions, found_paths,
                    running, probes, result, returned, request, reply, rules, call >>

Remove(r) ==
    /\ ~scanning
    /\ IsInstalled(r)
    /\ exe' = [f \in DOMAIN exe |-> IF f \in FilesOf(r) THEN Absent ELSE exe[f]]
    /\ which_env' = [c \in DOMAIN which_env |->
                        IF c \in Range(get_tool_rules[r].commands)
                        THEN None
                        ELSE which_env[c]]
    /\ dirs' = dirs \ Range(get_windows_extra_paths(get_tool_rules[r].id))
    /\ UNCHANGED << windows, scans, scanning, pc, ci, xi, versions, found_paths,
                    running, probes, result, returned, request, reply, rules, call >>

ChangeNext ==
    \/ \E req \in Requests : Serve(req)
    \/ \E r \in Rules : DetectStart(r)
    \/ \E r \in Rules : CandidateReturn(r)
    \/ \E r \in Rules : ExtraReturn(r)
    \/ ScanReturn
    \/ \E r \in Rules : \E file \in ExePaths(windows) : Install(r, file)
    \/ \E r \in Rules : Remove(r)

ChangeSpec == ChangeInit /\ [][ChangeNext]_vars

(***************************************************************************)
(* extract_version called on its own, as detect_tool calls it, on the      *)
(* texts over a small alphabet and on some outputs of real tools, with a   *)
(* pattern of the catalog, no pattern, or a pattern that is not usable.    *)
(***************************************************************************)
\* Length of the longest text built from the alphabet.
MaxTextLen == 6

Alphabet == { "1", ".", "v", "\n" }

TextNode == << "n", "o", "d", "e", " ", "v", "2", "0", ".", "1", "1", ".", "0" >>

Texts ==
    UNION { [1..n -> Alphabet] : n \in 0..MaxTextLen }
        \cup { TextNode, TextPython3, TextGit, TextUsage }

\* r"v?(\d+\.\d+\.\d+)", the pattern of the node rule
NodePattern ==
    [ok |-> TRUE,
     items |-> << [set |-> {"v"}, q |-> "opt"] >> \o SemVer3,
     gfrom |-> 2, gto |-> 6]

\* r"(\d+\.\d+)", the pattern of the make rule
TwoPartPattern ==
    [ok |-> TRUE, items |-> << DigitsPlus, Dot, DigitsPlus >>, gfrom |-> 1, gto |-> 3]

\* A pattern Regex::new returns Err for, such as r"(\d+".
MalformedPattern == [ok |-> FALSE, items |-> << >>, gfrom |-> 0, gto |-> 0]

\* r"v?\d+\.\d+": a pattern that compiles and has no capture group.
NoGroupPattern ==
    [ok |-> TRUE,
     items |-> << [set |-> {"v"}, q |-> "opt"], DigitsPlus, Dot, DigitsPlus >>,
     gfrom |-> 0, gto |-> 0]

\* The pattern arguments of the modelled calls, by name.
PatternNamed ==
    [node      |-> Some(NodePattern),
     two_part  |-> Some(TwoPartPattern),
     fallback  |-> None,
     malformed |-> Some(MalformedPattern),
     no_group  |-> Some(NoGroupPattern)]

ExtractInit ==
    /\ windows = FALSE
    /\ exe = [p \in ExePaths(FALSE) |-> Absent]
    /\ which_env = [c \in Commands |-> None]
    /\ dirs = {}
    /\ Idle
    /\ call \in { [phase |-> "called", text |-> t, pattern |-> p,
                   value |-> None, version |-> << >>] :
                     t \in Texts, p \in DOMAIN PatternNamed }

\* extract_version(output, rule.version_regex)
\*     .unwrap_or_else(|| "unknown".to_string())
ExtractVersion ==
    /\ call.phase = "called"
    /\ LET value == extract_version(call.text, PatternNamed[call.pattern])
       IN  call' = [call EXCEPT !.phase = "returned",
                                !.value = value,
                                !.version = UnwrapOrUnknown(value)]
    /\ UNCHANGED << env, scans, scanning, pc, ci, xi, versions, found_paths,
                    running, probes, result, returned, request, reply, rules >>

ExtractNext == ExtractVersion

ExtractSpec == ExtractInit /\ [][ExtractNext]_vars

(***************************************************************************)
(* security_scan/scanner.rs: check_exposed_ports called on its own, for a  *)
(* tool with two port rules and a list of entries of the port table.       *)
(***************************************************************************)
\* Length of the longest list of port-table entries.
MaxPortEntries == 2

\* A machine with nothing on it, for the calls that do not detect tools.
NoMachine ==
    /\ windows = FALSE
    /\ exe = [f \in ExePaths(FALSE) |-> Absent]
    /\ which_env = [c \in Commands |-> None]
    /\ dirs = {}

UpperToLower ==
    [A |-> "a", B |-> "b", C |-> "c", D |-> "d", E |-> "e", F |-> "f", G |-> "g",
     H |-> "h", I |-> "i", J |-> "j", K |-> "k", L |-> "l", M |-> "m", N |-> "n",
     O |-> "o", P |-> "p", Q |-> "q", R |-> "r", S |-> "s", T |-> "t", U |-> "u",
     V |-> "v", W |-> "w", X |-> "x", Y |-> "y", Z |-> "z"]

\* str::to_lowercase
to_lowercase(s) ==
    [i \in 1..Len(s) |-> IF s[i] \in DOMAIN UpperToLower THEN UpperToLower[s[i]] ELSE s[i]]

\* str::contains
contains(s, t) ==
    \E i \in 1..(Len(s) - Len(t) + 1) : SubSeq(s, i, i + Len(t) - 1) = t

\* The decimal digits of n, as format! and parse::<u16> write and read them.
RECURSIVE Decimal(_)
Decimal(n) ==
    LET d == << "0", "1", "2", "3", "4", "5", "6", "7", "8", "9" >>
    IN  IF n < 10 THEN << d[n + 1] >> ELSE Decimal(n \div 10) \o << d[(n % 10) + 1] >>

is_safe_binding(local_address, safe_bindings) ==
    IF local_address = << >>
    THEN FALSE
    ELSE LET addr == to_lowercase(local_address)
         IN  \/ contains(addr, << "1", "2", "7", ".", "0", ".", "0", ".", "1" >>)
             \/ contains(addr, << ":", ":", "1" >>)
             \/ contains(addr, << "l", "o", "c", "a", "l", "h", "o", "s", "t" >>)
             \/ \E i \in 1..Len(safe_bindings) :
                    contains(addr, to_lowercase(safe_bindings[i]))

\* The "Port N (name) is exposed" finding pushed for entry p.
ExposedFinding(tool, port_rule, p) ==
    [tool_id |-> tool.id,
     issue |-> [port |-> port_rule.port, name |-> port_rule.name, what |-> "is exposed"],
     risk_level |-> port_rule.risk_if_exposed,
     pid |-> p.pid,
     local |-> IF p.local_address = << >> THEN Unknown ELSE p.local_address]

\* The "Port N (name) is active" finding of the direct connection check.
ActiveFinding(tool, port_rule) ==
    [tool_id |-> tool.id,
     issue |-> [port |-> port_rule.port, name |-> port_rule.name, what |-> "is active"],
     risk_level |-> IF port_rule.risk_if_exposed = "Critical" THEN "High" ELSE "Medium",
     pid |-> 0,
     local |-> << "L", "i", "s", "t", "e", "n", "i", "n", "g" >>]

\* The findings the inner loop pushes for port_rule from entry k on.
RECURSIVE ExposedFrom(_, _, _, _)
ExposedFrom(tool, port_rule, ports_info, k) ==
    IF k > Len(ports_info)
    THEN << >>
    ELSE LET p == ports_info[k]
             rest == ExposedFrom(tool, port_rule, ports_info, k + 1)
         IN  IF p.port = port_rule.port
                  /\ ~is_safe_binding(p.local_address, port_rule.safe_bindings)
             THEN << ExposedFinding(tool, port_rule, p) >> \o rest
             ELSE rest

\* check_exposed_ports from port rule j on; listening[port] tells whether
\* check_port_binding can connect to 127.0.0.1:port.
RECURSIVE ExposedPortsFrom(_, _, _, _)
ExposedPortsFrom(tool, ports_info, listening, j) ==
    IF j > Len(tool.ports)
    THEN << >>
    ELSE LET port_rule == tool.ports[j]
             exposed == ExposedFrom(tool, port_rule, ports_info, 1)
             safe_binding_found ==
                 \E k \in 1..Len(ports_info) :
                     /\ ports_info[k].port = port_rule.port
                     /\ is_safe_binding(ports_info[k].local_address,
                                        port_rule.safe_bindings)
             reported_for_port == exposed # << >>
             active == IF ~safe_binding_found /\ ~reported_for_port
                          /\ listening[port_rule.port]
                       THEN << ActiveFinding(tool, port_rule) >>
                       ELSE << >>
         IN  exposed \o active \o ExposedPortsFrom(tool, ports_info, listening, j + 1)

check_exposed_ports(tool, ports_info, listening) ==
    ExposedPortsFrom(tool, ports_info, listening, 1)

\* Hosts of local addresses, by name, as netstat, ss and lsof print them.
HostText ==
    [v4_loopback |-> << "1", "2", "7", ".", "0", ".", "0", ".", "1" >>,
     v6_loopback |-> << "[", ":", ":", "1", "]" >>,
     localhost   |-> << "L", "o", "c", "a", "l", "h", "o", "s", "t" >>,
     v4_any      |-> << "0", ".", "0", ".", "0", ".", "0" >>,
     v6_any      |-> << ":", ":" >>,
     v6_any_br   |-> << "[", ":", ":", "]" >>,
     star        |-> << "*" >>,
     lan         |-> << "1", "9", "2", ".", "1", "6", "8", ".", "1", ".", "5" >>]

LoopbackHosts == { "v4_loopback", "v6_loopback", "localhost" }

\* The ports of the two port rules of the modelled tool.
RulePorts == { 18789, 8080 }

\* The entries of the port table: a host and a port printed as host:port,
\* and one entry whose address is not known.
PortEntries ==
    { [port |-> n, pid |-> 7, host |-> h,
       local_address |-> HostText[h] \o << ":" >> \o Decimal(n)] :
          h \in DOMAIN HostText, n \in RulePorts }
      \cup { [port |-> n, pid |-> 7, host |-> "unknown", local_address |-> << >>] :
                n \in RulePorts }

PortTables == UNION { [1..n -> PortEntries] : n \in 0..MaxPortEntries }

SafeBindingLists == { << >>, << HostText.lan >> }

PortTools ==
    { [id |-> "openclaw", name |-> "OpenClaw",
       ports |-> << [port |-> 18789, name |-> "Gateway", risk_if_exposed |-> "Critical",
                     safe_bindings |-> a],
                    [port |-> 8080, name |-> "Web UI", risk_if_exposed |-> "High",
                     safe_bindings |-> b] >>] :
          a, b \in SafeBindingLists }

PortsInit ==
    /\ NoMachine
    /\ Idle
    /\ call \in { [phase |-> "called", tool |-> t, ports_info |-> i, listening |-> l,
                   findings |-> << >>] :
                     t \in PortTools, i \in PortTables, l \in [RulePorts -> BOOLEAN] }

CheckExposedPorts ==
    /\ call.phase = "called"
    /\ call' = [call EXCEPT
                   !.phase = "returned",
                   !.findings = check_exposed_ports(call.tool, call.ports_info,
                                                    call.listening)]
    /\ UNCHANGED << env, scans, scanning, pc, ci, xi, versions, found_paths,
                    running, probes, result, returned, request, reply, rules >>

PortsNext == CheckExposedPorts

PortsSpec == PortsInit /\ [][PortsNext]_vars

(***************************************************************************)
(* PATH diagnostics (config/mod.rs).  analyze_path is a function of the    *)
(* PATH variable and of the directories that exist: a call is recorded in  *)
(* call, with the text of PATH as it was read and the entries returned.    *)
(***************************************************************************)

MaxPathLen == 5

DEV_PATH_PATTERNS ==
    << << << "n", "o", "d", "e" >>, "Node.js" >>,
       << << "n", "p", "m" >>, "npm" >>,
       << << "n", "v", "m" >>, "nvm" >>,
       << << "f", "n", "m" >>, "fnm" >>,
       << << "p", "y", "t", "h", "o", "n" >>, "Python" >>,
       << << "p", "y", "e", "n", "v" >>, "pyenv" >>,
       << << "c", "o", "n", "d", "a" >>, "Conda" >>,
       << << "c", "a", "r", "g", "o" >>, "Rust" >>,
       << << "r", "u", "s", "t", "u", "p" >>, "Rust" >>,
       << << ".", "c", "a", "r", "g", "o" >>, "Rust" >>,
       << << "g", "o", "/", "b", "i", "n" >>, "Go" >>,
       << << "j", "a", "v", "a" >>, "Java" >>,
       << << "j", "d", "k" >>, "Java" >>,
       << << "m", "a", "v", "e", "n" >>, "Maven" >>,
       << << "g", "r", "a", "d", "l", "e" >>, "Gradle" >>,
       << << "r", "u", "b", "y" >>, "Ruby" >>,
       << << "r", "b", "e", "n", "v" >>, "rbenv" >>,
       << << "g", "e", "m" >>, "Ruby" >>,
       << << "p", "h", "p" >>, "PHP" >>,
       << << "c", "o", "m", "p", "o", "s", "e", "r" >>, "Composer" >>,
       << << "d", "o", "t", "n", "e", "t" >>, ".NET" >>,
       << << "d", "o", "c", "k", "e", "r" >>, "Docker" >>,
       << << "k", "u", "b", "e", "c", "t", "l" >>, "Kubernetes" >>,
       << << "h", "o", "m", "e", "b", "r", "e", "w" >>, "Homebrew" >>,
       << << "b", "r", "e", "w" >>, "Homebrew" >>,
       << << "d", "e", "n", "o" >>, "Deno" >>,
       << << "b", "u", "n" >>, "Bun" >>,
       << << ".", "l", "o", "c", "a", "l", "/", "b", "i", "n" >>, "User Local" >>,
       << << "b", "i", "n" >>, "Binaries" >>,
       << << "s", "c", "r", "i", "p", "t", "s" >>, "Scripts" >> >>

\* The separator of the build: ';' on Windows, ':' elsewhere.
separator == IF windows THEN ";" ELSE ":"

\* str::split: the segments of s between separators, the empty ones included.
RECURSIVE SplitFrom(_, _, _, _)
SplitFrom(s, sep, i, cur) ==
    IF i > Len(s)
    THEN << cur >>
    ELSE IF s[i] = sep
         THEN << cur >> \o SplitFrom(s, sep, i + 1, << >>)
         ELSE SplitFrom(s, sep, i + 1, Append(cur, s[i]))

split(s, sep) == SplitFrom(s, sep, 1, << >>)

\* .filter(|p| !p.is_empty())
NonEmptySegments(segments) == SelectSeq(segments, LAMBDA p : p # << >>)

\* .iter().find(|(pattern, _)| path_lower.contains(pattern))
RECURSIVE FindPattern(_, _)
FindPattern(path_lower, i) ==
    IF i > Len(DEV_PATH_PATTERNS)
    THEN None
    ELSE IF contains(path_lower, DEV_PATH_PATTERNS[i][1])
         THEN Some(DEV_PATH_PATTERNS[i])
         ELSE FindPattern(path_lower, i + 1)

PathDoesNotExist == << "P", "a", "t", "h", " ", "d", "o", "e", "s", " ", "n", "o", "t", " ", "e", "x", "i", "s", "t" >>

PathContainsSpaces ==
    << "P", "a", "t", "h", " ", "c", "o", "n", "t", "a", "i", "n", "s", " ", "s", "p", "a", "c", "e", "s",
       " ", "(", "m", "a", "y", " ", "c", "a", "u", "s", "e", " ", "i", "s", "s", "u", "e", "s", " ",
       "i", "n", " ", "s", "o", "m", "e", " ", "s", "h", "e", "l", "l", "s", ")" >>

\* format!("Duplicate path (first at position {})", first_idx + 1)
DuplicatePath(first_idx) ==
    << "D", "u", "p", "l", "i", "c", "a", "t", "e", " ", "p", "a", "t", "h", " ", "(", "f", "i", "r", "s", "t", " ", "a", "t", " ", "p", "o", "s", "i", "t", "i", "o", "n", " " >>
        \o Decimal(first_idx + 1) \o << ")" >>

\* The closure of the map: the entry of segment p before the duplicate pass.
PathEntryOf(p, existing) ==
    LET exists == p \in existing
        found == FindPattern(to_lowercase(p), 1)
    IN  [path |-> p,
         exists |-> exists,
         is_dev_related |-> found # None,
         category |-> IF found # None THEN found[1][2] ELSE "System",
         issues |-> (IF ~exists THEN << PathDoesNotExist >> ELSE << >>)
                    \o (IF (\E i \in 1..Len(p) : p[i] = " ") /\ p[1] # "\""
                        THEN << PathContainsSpaces >> ELSE << >>)]

\* seen after entry i had the key path_lower always inserted: the latest position.
SeenLatest(seen, path_lower, i) ==
    [k \in DOMAIN seen \cup { path_lower } |-> IF k = path_lower THEN i ELSE seen[k]]

\* seen after entry i with key path_lower: inserted only when the key is new.
SeenFirst(seen, path_lower, i) ==
    IF path_lower \in DOMAIN seen
    THEN seen
    ELSE [k \in DOMAIN seen \cup { path_lower } |-> IF k = path_lower THEN i ELSE seen[k]]

\* The duplicate pass from entry i (counted from 0) on, seen being the map so far.
RECURSIVE CheckDuplicates(_, _, _)
CheckDuplicates(entries, i, seen) ==
    IF i >= Len(entries)
    THEN << >>
    ELSE LET entry == entries[i + 1]
             path_lower == to_lowercase(entry.path)
             marked == IF path_lower \in DOMAIN seen
                       THEN [entry EXCEPT
                                !.issues = Append(@, DuplicatePath(seen[path_lower]))]
                       ELSE entry
         IN  << marked >> \o CheckDuplicates(entries, i + 1, SeenFirst(seen, path_lower, i))

analyze_path(path_var, existing) ==
    LET segments == NonEmptySegments(split(path_var, separator))
        entries == [i \in 1..Len(segments) |-> PathEntryOf(segments[i], existing)]
    IN  CheckDuplicates(entries, 0, << >>)

\* The characters of the PATH texts of the model: a letter in both cases, the
\* other letters of the pattern "bin", a space and the separator of the build.
PathAlphabet == { "b", "B", "i", "n", " ", separator }

PathTexts == UNION { [1..n -> PathAlphabet] : n \in 0..MaxPathLen }

PathInit ==
    /\ windows \in BOOLEAN
    /\ exe = [f \in ExePaths(windows) |-> Absent]
    /\ which_env = [c \in Commands |-> None]
    /\ dirs \in { {}, { << "b" >> } }
    /\ Idle
    /\ call \in { [phase |-> "called", path_var |-> t, entries |-> << >>] :
                     t \in PathTexts }

AnalyzePath ==
    /\ call.phase = "called"
    /\ call' = [call EXCEPT !.phase = "returned",
                            !.entries = analyze_path(call.path_var, dirs)]
    /\ UNCHANGED << env, scans, scanning, pc, ci, xi, versions, found_paths,
                    running, probes, result, returned, request, reply, rules >>

PathNext == AnalyzePath

PathSpec == PathInit /\ [][PathNext]_vars

(***************************************************************************)
(* Notions the properties share.                                           *)
(***************************************************************************)
\* The ToolInfo records of the lists scan_all_tools has returned.
ReturnedInfos ==
    UNION { { returned[k][j] : j \in 1..Len(returned[k]) } : k \in 1..Len(returned) }

\* The ToolInfo records detect_tool has returned in the scan under way or
\* last completed, and those of the returned lists.
Infos == ReturnedInfos \cup { Unwrap(result[r]) : r \in { q \in Rules : IsSome(result[q]) } }

\* Rule r's detect_tool call of the current scan has returned.
Detected(r) == pc[r] = "done" \/ (pc[r] = "idle" /\ scans > 0)

\* The child a probe starts, and the ways it can end.
ProbeChild(p) == ChildOf(p.file)
ProbeSpawnFails(p) == ProbeChild(p).kind = "spawn_fail"
ProbeExitsZero(p) == ProbeChild(p).kind = "exit" /\ ProbeChild(p).code = 0
ProbeExitsNonZero(p) == ProbeChild(p).kind = "exit" /\ ProbeChild(p).code # 0

ProbesOf(r) == { probes[r][i] : i \in 1..Len(probes[r]) }
VersionsOf(r) == { versions[r][i] : i \in 1..Len(versions[r]) }
VersionSet(info) == { info.versions[i] : i \in 1..Len(info.versions) }

(***************************************************************************)
(* C1: scan_all_tools always terminates, also when the version command of  *)
(* a candidate never exits: every scan that was started returns.           *)
(***************************************************************************)
C1_ScanTerminates == scanning ~> ~scanning

(***************************************************************************)
(* C2: a probe whose command fails to spawn or exits with a non-zero       *)
(* status contributes no ToolVersion (no version is recorded for its       *)
(* path), and a rule all of whose probes fail this way returns nothing.    *)
(***************************************************************************)
ProbeFails(p) == ProbeSpawnFails(p) \/ ProbeExitsNonZero(p)

C2_FailedProbeNoVersion ==
    \A r \in Rules :
        /\ \A p \in ProbesOf(r) :
              ProbeFails(p) => \A v \in VersionsOf(r) : v.path # p.path
        /\ (Detected(r) /\ \A p \in ProbesOf(r) : ProbeFails(p)) => result[r] = None

(***************************************************************************)
(* C3: a rule with no resolvable candidate command and no extra directory  *)
(* holding its first command is absent from every result, and every        *)
(* ToolInfo ever returned has a non-empty versions list.                   *)
(***************************************************************************)
NoCandidateResolves(r) ==
    \A i \in 1..Len(get_tool_rules[r].commands) :
        find_command_path(get_tool_rules[r].commands[i]) = None

NoShadowMatch(r) ==
    \A d \in dirs :
        \A i \in 1..Len(get_windows_extra_paths(get_tool_rules[r].id)) :
            get_windows_extra_paths(get_tool_rules[r].id)[i] = d
                => ~PathExists(Join(d, get_tool_rules[r].commands[1]))

C3_NoVersionsNoInfo ==
    /\ \A info \in Infos : info.versions # << >>
    /\ \A r \in Rules :
          (NoCandidateResolves(r) /\ NoShadowMatch(r)) =>
              \A info \in Infos : info.id # get_tool_rules[r].id

\* A scan has returned a list that holds one rule and omits the other, which
\* has nothing to find.
C3_Witness ==
    /\ Len(returned) >= 1
    /\ Len(returned[1]) = 1
    /\ \E r \in Rules :
          /\ NoCandidateResolves(r) /\ NoShadowMatch(r)
          /\ returned[1][1].id # get_tool_rules[r].id

(***************************************************************************)
(* C4: when two distinct paths of a rule are probed and both commands      *)
(* succeed, one of them at least found through a candidate command, the    *)
(* ToolInfo has status "multiple_versions" and exactly one active version, *)
(* which is the first of the list and comes from an earlier candidate      *)
(* command than every other version found through the search path.         *)
(***************************************************************************)
\* Index of the first candidate command that resolves to path, 0 if none.
CandIndex(r, path) ==
    FirstIndex({ j \in 1..Len(get_tool_rules[r].commands) :
                   find_command_path(get_tool_rules[r].commands[j]) = Some(path) })

TwoSucceed(r) ==
    \E p, q \in ProbesOf(r) :
        /\ p.path # q.path
        /\ ~p.shadow
        /\ ProbeExitsZero(p) /\ ProbeExitsZero(q)

C4_TwoPathsMultiple ==
    \A r \in Rules :
        (Detected(r) /\ TwoSucceed(r)) =>
            /\ IsSome(result[r])
            /\ LET vs == Unwrap(result[r]).versions
                   active == { i \in 1..Len(vs) : vs[i].is_active }
               IN  /\ Unwrap(result[r]).status = "multiple_versions"
                   /\ active = {1}
                   /\ CandIndex(r, vs[1].path) # 0
                   /\ \A i \in 2..Len(vs) :
                        \/ CandIndex(r, vs[i].path) = 0
                        \/ CandIndex(r, vs[i].path) > CandIndex(r, vs[1].path)

\* A returned scan in which a rule had two candidate commands and an extra
\* directory succeed, at three distinct paths.
C4_Witness ==
    /\ Len(returned) >= 1
    /\ \E r \in Rules :
          /\ Detected(r)
          /\ \E p, q, x \in ProbesOf(r) :
                /\ ~p.shadow /\ ~q.shadow /\ x.shadow
                /\ p.path # q.path
                /\ ProbeExitsZero(p) /\ ProbeExitsZero(q) /\ ProbeExitsZero(x)

(***************************************************************************)
(* C5: when the first candidate command of a rule resolves, its version    *)
(* command succeeds and no other path is found, the ToolInfo has exactly   *)
(* one version, active, and status "installed"; a git that prints          *)
(* "git version 2.43.0" yields version "2.43.0".                           *)
(***************************************************************************)
OnlyFirstCandidate(r) ==
    LET first == find_command_path(get_tool_rules[r].commands[1])
    IN  /\ IsSome(first)
        /\ found_paths[r] = {Unwrap(first)}
        /\ \A p \in ProbesOf(r) : ~p.shadow /\ ProbeExitsZero(p)

GitIndex == CHOOSE r \in Rules : get_tool_rules[r].id = "git"

C5_FirstCandidateInstalled ==
    /\ \A r \in Rules :
          (Detected(r) /\ OnlyFirstCandidate(r)) =>
              /\ IsSome(result[r])
              /\ Unwrap(result[r]).id = get_tool_rules[r].id
              /\ Len(Unwrap(result[r]).versions) = 1
              /\ Unwrap(result[r]).versions[1].is_active
              /\ Unwrap(result[r]).versions[1].path
                    = Unwrap(find_command_path(get_tool_rules[r].commands[1]))
              /\ Unwrap(result[r]).status = "installed"
    /\ \A p \in GitPaths(windows) :
          (Detected(GitIndex) /\ find_command_path("git") = Some(p) /\ exe[p] = "git_ok") =>
              result[GitIndex] =
                  Some([id |-> "git", name |-> "Git", category |-> "version_control",
                        versions |-> << [version |-> << "2", ".", "4", "3", ".", "0" >>,
                                         path |-> p, is_active |-> TRUE] >>,
                        status |-> "installed"])

\* A scan has returned git 2.43.0 found through its only candidate command.
C5_Witness ==
    /\ Len(returned) >= 1
    /\ Detected(GitIndex) /\ OnlyFirstCandidate(GitIndex)
    /\ \E p \in GitPaths(windows) : exe[p] = "git_ok"
    /\ \E i \in 1..Len(returned[1]) : returned[1][i].id = "git"

(***************************************************************************)
(* C6: when two candidate commands of a rule resolve to the same path, the *)
(* path is probed once, under the first of the two names, and the rule     *)
(* gets one ToolVersion for it (none when the command could not be         *)
(* started), never two.                                                    *)
(***************************************************************************)
SharedPaths(r) ==
    { path \in ExePaths(windows) :
        \E i, j \in 1..Len(get_tool_rules[r].commands) :
            /\ i # j
            /\ find_command_path(get_tool_rules[r].commands[i]) = Some(path)
            /\ find_command_path(get_tool_rules[r].commands[j]) = Some(path) }

CandidateProbesAt(r, path) ==
    { k \in 1..Len(probes[r]) : ~probes[r][k].shadow /\ probes[r][k].file = path }

VersionsAt(vs, path) == { k \in 1..Len(vs) : vs[k].path = path }

C6_SamePathOnce ==
    \A r \in Rules :
        Detected(r) =>
            \A path \in SharedPaths(r) :
                /\ Cardinality(CandidateProbesAt(r, path)) = 1
                /\ \A k \in CandidateProbesAt(r, path) :
                      /\ probes[r][k].cmd
                            = get_tool_rules[r].commands[CandIndex(r, path)]
                      /\ Cardinality(VersionsAt(versions[r], path))
                            = IF ProbeSpawnFails(probes[r][k]) THEN 0 ELSE 1

\* A scan has returned a rule whose two names for one path gave one version.
C6_Witness ==
    /\ Len(returned) >= 1
    /\ \E r \in Rules :
          /\ Detected(r)
          /\ \E path \in SharedPaths(r) :
                /\ Cardinality(VersionsAt(versions[r], path)) = 1
                /\ IsSome(result[r])

(***************************************************************************)
(* C7: in every ToolInfo returned, the paths of the versions are pairwise  *)
(* distinct, versions from extra directories included.                     *)
(***************************************************************************)
C7_PathsDistinct ==
    \A info \in Infos :
        \A i, j \in 1..Len(info.versions) :
            i # j => info.versions[i].path # info.versions[j].path

\* A returned ToolInfo of a rule with two names for one path that holds a
\* version from the search path and one from an extra directory.
C7_Witness ==
    \E r \in Rules :
        /\ SharedPaths(r) # {}
        /\ \E info \in ReturnedInfos :
              /\ info.id = get_tool_rules[r].id
              /\ \E v, w \in VersionSet(info) :
                    /\ v.path \in ShadowDirs
                    /\ w.path \in SharedPaths(r)

(***************************************************************************)
(* C8: in every ToolInfo returned, only the first version can be active,   *)
(* so at most one is.                                                      *)
(***************************************************************************)
C8_OnlyFirstActive ==
    \A info \in Infos :
        \A i \in 1..Len(info.versions) :
            info.versions[i].is_active => i = 1

\* A returned ToolInfo with three versions, the first one active.
C8_Witness ==
    \E info \in ReturnedInfos :
        /\ Len(info.versions) >= 3
        /\ info.versions[1].is_active

NothingExtracted(r, p) ==
    /\ ProbeExitsZero(p)
    /\ Extracted[<< ProbeChild(p).stdout, ProbeChild(p).stderr >>][r] = None

C10_UnknownStillReported ==
    \A r \in Rules :
        Detected(r) =>
            \A p \in ProbesOf(r) :
                NothingExtracted(r, p) =>
                    /\ \E v \in VersionsOf(r) : v.path = p.path /\ v.version = Unknown
                    /\ IsSome(result[r])
                    /\ pc[r] = "idle" =>
                          \E i \in 1..Len(returned[Len(returned)]) :
                              /\ returned[Len(returned)][i].id = get_tool_rules[r].id
                              /\ \E v \in VersionSet(returned[Len(returned)][i]) :
                                    v.path = p.path /\ v.version = Unknown

\* A scan has returned a tool whose only version is "unknown".
C10_Witness ==
    /\ Len(returned) >= 1
    /\ \E r \in Rules :
          /\ pc[r] = "idle"
          /\ \E p \in ProbesOf(r) : NothingExtracted(r, p)
          /\ \E i \in 1..Len(returned[Len(returned)]) :
                /\ returned[Len(returned)][i].id = get_tool_rules[r].id
                /\ Len(returned[Len(returned)][i].versions) = 1

(***************************************************************************)
(* C11: a candidate command that cannot be resolved, whose version command *)
(* fails or does not end, or whose output holds no version, is left behind *)
(* and the loop goes on: no path is probed twice, no detect_tool call      *)
(* stays on a candidate whose command does not end, once detect_tool has   *)
(* returned every candidate command that resolves has had its path probed, *)
(* and detect_tool returns nothing only when no probe recorded a version.  *)
(***************************************************************************)
C11_CandidateFailureLocal ==
    \A r \in Rules :
        /\ \A path \in ExePaths(windows) :
              Cardinality(CandidateProbesAt(r, path)) <= 1
        /\ pc[r] = "exec" => ~Blocked(ChildOf(Unwrap(running[r])))
        /\ Detected(r) =>
              /\ \A i \in 1..Len(get_tool_rules[r].commands) :
                    LET path == find_command_path(get_tool_rules[r].commands[i])
                    IN  IsSome(path) => CandidateProbesAt(r, Unwrap(path)) # {}
              /\ result[r] = None <=> versions[r] = << >>

(***************************************************************************)
(* Dotted numbers, described without a regular expression.                 *)
(***************************************************************************)
\* s consists of n non-empty runs of digits separated by single dots.
IsDotted(s, n) ==
    /\ s # << >>
    /\ \A i \in 1..Len(s) : s[i] \in Digit \cup {"."}
    /\ s[1] \in Digit /\ s[Len(s)] \in Digit
    /\ \A i \in 1..(Len(s) - 1) : ~(s[i] = "." /\ s[i + 1] = ".")
    /\ Cardinality({ i \in 1..Len(s) : s[i] = "." }) = n - 1

\* The positions at which a dotted number of one of the sizes in ns that
\* starts at position i of text can end.
DottedEnds(text, i, ns) ==
    { j \in i..Len(text) : \E n \in ns : IsDotted(SubSeq(text, i, j), n) }

\* The longest dotted number of a size in ns at the first position of text
\* where a dotted number of the least size in ns begins; None without one.
FirstDotted(text, ns) ==
    LET least == CHOOSE n \in ns : \A m \in ns : n <= m
        starts == { i \in 1..Len(text) : DottedEnds(text, i, {least}) # {} }
    IN  IF starts = {}
        THEN None
        ELSE LET i == CHOOSE a \in starts : \A b \in starts : a <= b
                 ends == DottedEnds(text, i, ns)
                 j == CHOOSE a \in ends : \A b \in ends : a >= b
             IN  Some(SubSeq(text, i, j))

(***************************************************************************)
(* C12: given a pattern, extract_version searches the whole text, lines    *)
(* after the first included, and returns the content of capture group 1 of *)
(* the first match, None when nothing matches: for v?(\d+\.\d+\.\d+) the   *)
(* first number of three dotted parts without the v, for (\d+\.\d+) the    *)
(* first number of two parts; "node v20.11.0" gives "20.11.0".             *)
(***************************************************************************)
C12_PatternGivesGroupOne ==
    call.phase = "returned" =>
        /\ call.pattern = "node" => call.value = FirstDotted(call.text, {3})
        /\ call.pattern = "two_part" => call.value = FirstDotted(call.text, {2})
        /\ (call.pattern = "node" /\ call.text = TextNode) =>
              call.value = Some(<< "2", "0", ".", "1", "1", ".", "0" >>)

\* The call of the example has returned a version.
C12_Witness ==
    /\ call.phase = "returned"
    /\ call.pattern = "node"
    /\ call.text = TextNode
    /\ IsSome(call.value)

(***************************************************************************)
(* C13: given no pattern, extract_version returns the first number of the  *)
(* text with two dotted parts, with its third part when one follows, so a  *)
(* value returned has two or three parts and does not end in a dot, and    *)
(* None when the text holds no number of two dotted parts.                 *)
(***************************************************************************)
C13_FallbackShape ==
    (call.phase = "returned" /\ call.pattern = "fallback") =>
        /\ call.value = FirstDotted(call.text, {2, 3})
        /\ IsSome(call.value) =>
              /\ IsDotted(Unwrap(call.value), 2) \/ IsDotted(Unwrap(call.value), 3)
              /\ Unwrap(call.value)[Len(Unwrap(call.value))] # "."
        /\ call.value = None <=> FirstDotted(call.text, {2}) = None

(***************************************************************************)
(* C14: the version recorded for a probe is the one found in standard      *)
(* error when standard output is empty or all whitespace, and the one      *)
(* found in standard output alone otherwise ("unknown" when that stream    *)
(* holds none): a version that only standard error holds is not recorded   *)
(* when standard output has other content.                                 *)
(***************************************************************************)
StreamTexts ==
    UNION { { Behaviour[b].stdout, Behaviour[b].stderr } : b \in DOMAIN Behaviour }
        \cup { TextNotRecognized }

\* The version each rule's pattern finds in a text, "unknown" if none.
VersionIn ==
    [t \in StreamTexts |->
        [r \in Rules |->
            LET found == extract_version(t, get_tool_rules[r].version_regex)
            IN  IF found = None THEN Unknown ELSE Unwrap(found)]]

IsBlank(t) == \A i \in 1..Len(t) : t[i] \in {" ", "\t", "\n", "\r"}

OnlyStderrHasVersion(r, p) ==
    /\ ProbeChild(p).kind = "exit"
    /\ ~IsBlank(ProbeChild(p).stdout)
    /\ VersionIn[ProbeChild(p).stdout][r] = Unknown
    /\ VersionIn[ProbeChild(p).stderr][r] # Unknown

C14_OneStreamSearched ==
    \A r \in Rules :
        Detected(r) =>
            \A p \in ProbesOf(r) :
                ProbeChild(p).kind = "exit" =>
                    \E k \in 1..Len(versions[r]) :
                        /\ versions[r][k].path = p.path
                        /\ versions[r][k].version =
                              IF IsBlank(ProbeChild(p).stdout)
                              THEN VersionIn[ProbeChild(p).stderr][r]
                              ELSE VersionIn[ProbeChild(p).stdout][r]
                        /\ OnlyStderrHasVersion(r, p) =>
                              versions[r][k].version = Unknown

\* A scan has returned after a probe whose version is on standard error
\* behind a standard output with other content, and after one whose standard
\* output is blank and whose version was taken from standard error.
C14_Witness ==
    /\ Len(returned) >= 1
    /\ \E r \in Rules : \E p \in ProbesOf(r) : OnlyStderrHasVersion(r, p)
    /\ \E r \in Rules : \E p \in ProbesOf(r) :
          /\ ProbeChild(p).kind = "exit"
          /\ IsBlank(ProbeChild(p).stdout)
          /\ \E v \in VersionsOf(r) : v.path = p.path /\ v.version # Unknown

(***************************************************************************)
(* C15: with a pattern that does not compile or has no capture group,      *)
(* extract_version returns None for every text, as for a pattern that      *)
(* matches nowhere, and the version the detector records is "unknown".     *)
(***************************************************************************)
C15_MalformedIsNoMatch ==
    (call.phase = "returned" /\ call.pattern \in {"malformed", "no_group"}) =>
        /\ call.value = None
        /\ call.version = Unknown

\* A call with a pattern that does not compile has returned for a text that
\* holds a version number.
C15_Witness ==
    /\ call.phase = "returned"
    /\ call.pattern = "malformed"
    /\ FirstDotted(call.text, {2, 3}) # None

(***************************************************************************)
(* C16: whatever the other rules do and however the tasks interleave, what *)
(* a scan reports for a rule is what detect_tool returns for that rule run *)
(* by itself (its ToolInfo, or its absence from the list), and no other    *)
(* rule keeps the scan from reporting it: while a scan is under way, no    *)
(* other rule's task waits on a command that does not end.                 *)
(***************************************************************************)
LastReturned == returned[Len(returned)]

C16_ReportedAsAlone ==
    \A r \in Rules :
        /\ pc[r] = "done" => result[r] = detect_tool(r).value
        /\ (~scanning /\ returned # << >>) =>
              Find(LastReturned, get_tool_rules[r].id) = detect_tool(r).value
        /\ (scanning /\ detect_tool(r).returns) =>
              \A q \in Rules \ {r} :
                  pc[q] \in {"exec", "xexec"} => ~Blocked(ChildOf(Unwrap(running[q])))

(***************************************************************************)
(* C17: the list a scan returns holds the ToolInfo of each rule whose      *)
(* detect_tool call recorded a version, once, and nothing else; its ids    *)
(* are pairwise distinct, as the ids of the catalog are.                   *)
(***************************************************************************)
C17_ExactlyTheDetected ==
    /\ \A r, q \in Rules : r # q => get_tool_rules[r].id # get_tool_rules[q].id
    /\ (~scanning /\ returned # << >>) =>
          /\ \A r \in Rules :
                Cardinality({ i \in 1..Len(LastReturned) :
                                /\ LastReturned[i].id = get_tool_rules[r].id
                                /\ LastReturned[i].versions = versions[r] })
                    = IF versions[r] # << >> THEN 1 ELSE 0
          /\ \A i \in 1..Len(LastReturned) :
                \E r \in Rules : result[r] = Some(LastReturned[i])
          /\ \A i, j \in 1..Len(LastReturned) :
                i # j => LastReturned[i].id # LastReturned[j].id

\* A scan has returned a list with every rule of the catalog in it.
C17_Witness ==
    /\ ~scanning
    /\ returned # << >>
    /\ Len(LastReturned) = Len(get_tool_rules)
    /\ \A r \in Rules : versions[r] # << >>

(***************************************************************************)
(* C18: on a machine that does not change, any two scans return lists that *)
(* hold the same set of ToolInfo records.                                  *)
(***************************************************************************)
C18_ScansSetEqual ==
    \A j, k \in 1..Len(returned) : Range(returned[j]) = Range(returned[k])

\* Two scans have returned, the first with two tools.
C18_Witness ==
    /\ Len(returned) >= 2
    /\ Cardinality(Range(returned[1])) = 2

(***************************************************************************)
(* C19: nothing of an earlier scan is kept: when a scan returns, on a      *)
(* machine that changed between scans but not during this one, the list    *)
(* holds for each rule what detect_tool finds on the machine as it is now, *)
(* and the command's reply is made from that list; a rule whose tool is    *)
(* gone is not in the list and get_tool_info for it replies None.          *)
(***************************************************************************)
ToolGone(r) == NoCandidateResolves(r) /\ NoShadowMatch(r)

FreshOnReturn ==
    (scanning /\ ~scanning') =>
        /\ \A r \in Rules :
              /\ Find(LastReturned', get_tool_rules[r].id) = detect_tool(r).value
              /\ ToolGone(r) =>
                    /\ \A i \in 1..Len(LastReturned') :
                          LastReturned'[i].id # get_tool_rules[r].id
                    /\ request = GetToolInfo(get_tool_rules[r].id) => reply' = None
        /\ reply' = ReplyTo(request, LastReturned')

C19_NoStaleResult == [][FreshOnReturn]_vars

\* A first scan reported a tool; it was removed, and get_tool_info for it
\* then replied None.
C19_Witness ==
    /\ ~scanning
    /\ Len(returned) = 2
    /\ \E r \in Rules :
          /\ Find(returned[1], get_tool_rules[r].id) # None
          /\ ToolGone(r)
          /\ request = GetToolInfo(get_tool_rules[r].id)
          /\ reply = None
          /\ Find(returned[2], get_tool_rules[r].id) = None

(***************************************************************************)
(* C20: within a rule the probes follow the order of the candidate         *)
(* commands, the extra directories are probed after the last candidate,    *)
(* in list order, and the versions are in that order too: versions found   *)
(* through the search path first, in candidate order, then those of the    *)
(* extra directories.                                                      *)
(***************************************************************************)
CmdIndex(r, cmd) ==
    FirstIndex({ j \in 1..Len(get_tool_rules[r].commands) :
                   get_tool_rules[r].commands[j] = cmd })

ExtraIndex(r, path) ==
    FirstIndex({ j \in 1..Len(get_windows_extra_paths(get_tool_rules[r].id)) :
                   get_windows_extra_paths(get_tool_rules[r].id)[j] = path })

C20_DiscoveryOrder ==
    \A r \in Rules :
        /\ \A k, l \in 1..Len(probes[r]) :
              k < l =>
                 LET p == probes[r][k]
                     q == probes[r][l]
                 IN  /\ ~(p.shadow /\ ~q.shadow)
                     /\ (~p.shadow /\ ~q.shadow) => CmdIndex(r, p.cmd) < CmdIndex(r, q.cmd)
                     /\ (p.shadow /\ q.shadow) => ExtraIndex(r, p.path) < ExtraIndex(r, q.path)
        /\ (\E p \in ProbesOf(r) : p.shadow) => ci[r] > Len(get_tool_rules[r].commands)
        /\ \A k, l \in 1..Len(versions[r]) :
              k < l =>
                 LET v == versions[r][k]
                     w == versions[r][l]
                 IN  /\ ~(ExtraIndex(r, v.path) # 0 /\ CandIndex(r, w.path) # 0)
                     /\ (CandIndex(r, v.path) # 0 /\ CandIndex(r, w.path) # 0) =>
                           CandIndex(r, v.path) < CandIndex(r, w.path)
                     /\ (ExtraIndex(r, v.path) # 0 /\ ExtraIndex(r, w.path) # 0) =>
                           ExtraIndex(r, v.path) < ExtraIndex(r, w.path)

\* A scan has returned a tool with two versions found through the search
\* path followed by one of an extra directory.
C20_Witness ==
    \E info \in ReturnedInfos :
        \E r \in Rules :
            /\ info.id = get_tool_rules[r].id
            /\ Len(info.versions) = 3
            /\ CandIndex(r, info.versions[1].path) # 0
            /\ CandIndex(r, info.versions[2].path) # 0
            /\ ExtraIndex(r, info.versions[3].path) # 0

(***************************************************************************)
(* C21: a version recorded for an extra directory is never active, and     *)
(* one is recorded only when the directory exists, is not in found_paths,  *)
(* holds a file named as the rule's first command, and running that file   *)
(* with the version arguments succeeded (it started and exited with        *)
(* status 0).                                                              *)
(***************************************************************************)
ShadowVersions(r) == { v \in VersionsOf(r) : ExtraIndex(r, v.path) # 0 }

C21_ShadowVersionGuarded ==
    \A r \in Rules :
        \A v \in ShadowVersions(r) :
            /\ ~v.is_active
            /\ v.path \in dirs
            /\ v.path \notin found_paths[r]
            /\ PathExists(Join(v.path, get_tool_rules[r].commands[1]))
            /\ \E p \in ProbesOf(r) :
                  /\ p.shadow
                  /\ p.path = v.path
                  /\ p.file = Join(v.path, get_tool_rules[r].commands[1])
                  /\ ProbeExitsZero(p)

(***************************************************************************)
(* C23: a tool with one executable on the machine is never reported with   *)
(* status "multiple_versions": an extra directory whose executable was     *)
(* already recorded through the search path adds no second version.        *)
(***************************************************************************)
InstalledFiles(r) == { f \in FilesOf(r) \cap DOMAIN exe : exe[f] # Absent }

C23_OneLocationOneVersion ==
    \A r \in Rules :
        /\ (Cardinality(InstalledFiles(r)) = 1 /\ IsSome(result[r])) =>
              /\ Unwrap(result[r]).status # "multiple_versions"
              /\ Len(Unwrap(result[r]).versions) = 1
        /\ \A v \in ShadowVersions(r) :
              \A w \in VersionsOf(r) :
                  w.path # Join(v.path, get_tool_rules[r].commands[1])

(***************************************************************************)
(* C24: a version is active exactly when it is the first of the list and   *)
(* was found through a candidate command.  Once detect_tool has returned,  *)
(* the active version is that of the first candidate whose version command *)
(* could be started, which need not be the first candidate that resolved;  *)
(* when no candidate's command could be started, no version is active.     *)
(***************************************************************************)
\* The probes of candidate commands for which execute_command returned Some.
ExecutedCandidates(r) ==
    { k \in 1..Len(probes[r]) :
        ~probes[r][k].shadow /\ ~ProbeSpawnFails(probes[r][k]) }

C24_ActiveIffFirstCandidate ==
    \A r \in Rules :
        /\ \A k \in 1..Len(versions[r]) :
              versions[r][k].is_active
                  <=> (k = 1 /\ CandIndex(r, versions[r][k].path) # 0)
        /\ Detected(r) =>
              IF ExecutedCandidates(r) # {}
              THEN /\ versions[r][1].is_active
                   /\ versions[r][1].path
                         = probes[r][FirstIndex(ExecutedCandidates(r))].path
              ELSE \A v \in VersionsOf(r) : ~v.is_active

\* A scan has returned a tool whose first resolved candidate could not be
\* started and whose active version comes from a later candidate.
C24_Witness ==
    /\ Len(returned) >= 1
    /\ \E r \in Rules :
          /\ pc[r] = "idle"
          /\ probes[r] # << >>
          /\ ~probes[r][1].shadow
          /\ ProbeSpawnFails(probes[r][1])
          /\ versions[r] # << >>
          /\ versions[r][1].is_active

GetToolInfoReturns ==
    (scanning /\ ~scanning' /\ request # ScanTools) =>
        LET toolId == request[2]
            hits == { i \in 1..Len(LastReturned') : LastReturned'[i].id = toolId }
            named == { r \in Rules : get_tool_rules[r].id = toolId }
        IN  /\ hits # {} <=> reply' # None
            /\ \A i \in hits : reply' = Some(LastReturned'[i])
            /\ \A i \in 1..Len(reply') : reply'[i].id = toolId
            /\ \A r \in named : reply' = detect_tool(r).value
            /\ named = {} => reply' = None

C26_GetToolInfoFinds == [][GetToolInfoReturns]_vars

\* get_tool_info has returned the second entry of a list of two.
C26_Witness ==
    /\ ~scanning
    /\ returned # << >>
    /\ Len(LastReturned) = 2
    /\ request = GetToolInfo(LastReturned[2].id)
    /\ reply = Some(LastReturned[2])

(***************************************************************************)
(* C27: check_exposed_ports reports, for every entry of the port table on  *)
(* a rule's port whose host is not a loopback host and whose address holds *)
(* none of the rule's safe bindings, a finding that the port is exposed,   *)
(* wildcard hosts (0.0.0.0, ::, [::] and the star) included; and none for *)
(* an entry bound to a loopback host.                                      *)
(***************************************************************************)
HoldsSafeBinding(p, port_rule) ==
    \E i \in 1..Len(port_rule.safe_bindings) :
        \E a \in 1..Len(p.local_address) : \E b \in a..Len(p.local_address) :
            SubSeq(p.local_address, a, b) = port_rule.safe_bindings[i]

ExposedFindingsFor(p, port_rule) ==
    { k \in 1..Len(call.findings) :
        /\ call.findings[k].issue.what = "is exposed"
        /\ call.findings[k].issue.port = port_rule.port
        /\ call.findings[k].local
              = (IF p.local_address = << >> THEN Unknown ELSE p.local_address) }

C27_NonLoopbackExposed ==
    call.phase = "returned" =>
        \A j \in 1..Len(call.tool.ports) :
            \A k \in 1..Len(call.ports_info) :
                LET p == call.ports_info[k]
                    port_rule == call.tool.ports[j]
                IN  p.port = port_rule.port =>
                        /\ (p.host \notin LoopbackHosts /\ ~HoldsSafeBinding(p, port_rule))
                              => ExposedFindingsFor(p, port_rule) # {}
                        /\ p.host \in LoopbackHosts
                              => ExposedFindingsFor(p, port_rule) = {}

(***************************************************************************)
(* C28: analyze_path returns one entry per non-empty segment of PATH, in   *)
(* the order of PATH, and an entry carries the issue "Duplicate path       *)
(* (first at position k)" exactly when an earlier entry has the same path  *)
(* ignoring case, k being the position, counted from 1, of the first such  *)
(* entry; the first occurrence of a path carries no such issue.            *)
(***************************************************************************)
\* A maximal run of characters of PATH free of the separator, from i to j.
IsSegment(i, j) ==
    LET p == call.path_var
    IN  /\ i <= j
        /\ \A k \in i..j : p[k] # separator
        /\ i = 1 \/ p[i - 1] = separator
        /\ j = Len(p) \/ p[j + 1] = separator

SegmentStarts ==
    { i \in 1..Len(call.path_var) : \E j \in i..Len(call.path_var) : IsSegment(i, j) }

\* The n-th non-empty segment of PATH.
SegmentAt(n) ==
    LET i == CHOOSE s \in SegmentStarts :
                 Cardinality({ t \in SegmentStarts : t < s }) = n - 1
        j == CHOOSE e \in i..Len(call.path_var) : IsSegment(i, e)
    IN  SubSeq(call.path_var, i, j)

SameIgnoringCase(a, b) ==
    /\ Len(a) = Len(b)
    /\ \A i \in 1..Len(a) :
           \/ a[i] = b[i]
           \/ a[i] \in DOMAIN UpperToLower /\ UpperToLower[a[i]] = b[i]
           \/ b[i] \in DOMAIN UpperToLower /\ UpperToLower[b[i]] = a[i]

\* The positions named by the duplicate issues of an entry.
DuplicatePositions(entry) ==
    { k \in 1..Len(call.entries) :
          \E x \in 1..Len(entry.issues) : entry.issues[x] = DuplicatePath(k - 1) }

IsDuplicateIssue(issue) ==
    /\ Len(issue) >= 14
    /\ SubSeq(issue, 1, 14) = << "D", "u", "p", "l", "i", "c", "a", "t", "e", " ", "p", "a", "t", "h" >>

C28_DuplicatesNameFirst ==
    call.phase = "returned" =>
        /\ Len(call.entries) = Cardinality(SegmentStarts)
        /\ \A n \in 1..Len(call.entries) :
               LET entry == call.entries[n]
                   earlier == { m \in 1..(n - 1) :
                                    SameIgnoringCase(call.entries[m].path, entry.path) }
                   issues == { x \in 1..Len(entry.issues) :
                                   IsDuplicateIssue(entry.issues[x]) }
               IN  /\ entry.path = SegmentAt(n)
                   /\ Cardinality(issues) = Cardinality(DuplicatePositions(entry))
                   /\ DuplicatePositions(entry) =
                          IF earlier = {}
                          THEN {}
                          ELSE { CHOOSE m \in earlier : \A o \in earlier : m <= o }

\* Three entries name the same path in different cases, after an empty segment or
\* not: the second and the third both name the first.
C28_Witness ==
    /\ call.phase = "returned"
    /\ Len(call.entries) = 3
    /\ call.entries[1].path # call.entries[2].path
    /\ DuplicatePositions(call.entries[2]) = { 1 }
    /\ DuplicatePositions(call.entries[3]) = { 1 }

(***************************************************************************)
(* C22: no scan changes the rule catalog.  The rules the tasks of a scan   *)
(* borrow are, in every state of every scan, the catalog as it was at the  *)
(* start, ids, candidate commands, version arguments and patterns          *)
(* included, and every command a detector runs is a candidate command of   *)
(* its own rule of that catalog, or that rule's first command in one of    *)
(* the rule's extra directories.                                           *)
(***************************************************************************)
RunsOwnRule(r, probe) ==
    LET rule == get_tool_rules[r]
    IN  IF probe.shadow
        THEN \E d \in Range(get_windows_extra_paths(rule.id)) :
                 probe.cmd = Join(d, rule.commands[1])
        ELSE probe.cmd \in Range(rule.commands)

C22_CatalogUnchanged ==
    /\ rules = get_tool_rules
    /\ \A r \in Rules :
           \A k \in 1..Len(probes[r]) : RunsOwnRule(r, probes[r][k])

\* In a scan after the first, a detector has run a command of its rule.
C22_Witness ==
    /\ scans = MaxScans
    /\ scanning
    /\ \E r \in Rules : probes[r] # << >> /\ pc[r] = "done"

=============================================================================
